---- MODULE Spec2Model ----
(***************************************************************************)
(* Model of vmaf_analyzer (src/main.go lines 212-536, the current revision *)
(* of the driver, with src/ffmpeg_decoder.go and src/vmaf_estimator.go).   *)
(*                                                                         *)
(* Go slices are modelled as TLA+ sequences: the Go element s[k] is the    *)
(* TLA+ element s[k+1].  Viewer shares and scores are float64 in the       *)
(* program; the model draws them from small integers, on which float64     *)
(* addition and multiplication are exact.                                  *)
(***************************************************************************)
EXTENDS Integers, Sequences, FiniteSets, TLC

\* ---------------------------------------------------------------- constants
bandwidthsLen == 100
minVmafResolution == 192
lowVMAFThreshold == 0
\* i*100*1000 : lower bound of bandwidth bucket i in bits per second
BucketBps == 100000
\* (j+1)*16 : width of resolution bucket j
BucketWidth == 16
\* errc := make(chan error, 1)
ErrcCap == 1
\* float64 has a 53 bit significand: a normalised value is m * 2^(-k) with
\* 2^52 <= m < 2^53
MantissaBits == 52

\* ------------------------------------------------------------------- bounds
\* most variants a manifest of a full run lists
MaxVariants == 2
\* longest rendition ladder of the bucketing loop taken alone
MaxRenditions == 3
\* frame count of the mezzanine; a dumped variant has 0..MaxFrames frames
MaxFrames == 2
\* largest operand of widthToHeight in the specification of the pure function
MaxDim == 22
\* number of entries of resolution_pcts in a well-formed data file
ResLen == 45
\* largest share of one bucket
MaxShare == 2

\* --------------------------------------------------------------- arithmetic
RECURSIVE Pow2(_)
Pow2(n) == IF n <= 0 THEN 1 ELSE 2 * Pow2(n - 1)

RECURSIVE FloorLog2(_)
\* largest b with 2^b <= q, for q >= 1
FloorLog2(q) == IF q < 2 THEN 0 ELSE 1 + FloorLog2(q \div 2)

RECURSIVE FloorLog2Ratio(_, _)
\* largest a (possibly negative) with 2^a <= h/w, for h, w >= 1
FloorLog2Ratio(h, w) ==
  IF h >= w
    THEN (IF 2 * w <= h THEN 1 + FloorLog2Ratio(h, 2 * w) ELSE 0)
    ELSE FloorLog2Ratio(2 * h, w) - 1

SqMod(x, w) == (x * x) % w

RECURSIVE Pow2Mod(_, _)
\* 2^k mod w, by repeated squaring
Pow2Mod(k, w) ==
  IF k = 0 THEN 1 % w
  ELSE IF k % 2 = 0 THEN SqMod(Pow2Mod(k \div 2, w), w)
  ELSE (2 * Pow2Mod(k - 1, w)) % w

\* the residue rp in 0..w-1 moved to the interval (-w/2, w/2)
Centered(rp, w) == IF 2 * rp < w THEN rp ELSE rp - w

\* The signed rounding residue of the float64 quotient sf = float64(h) /
\* float64(w).  With a = FloorLog2Ratio(h, w) and k = 52 - a the quotient is
\* sf = m / 2^k for the integer m nearest to h*2^k/w, and
\* h*2^k = m*w + r with -w/2 < r < w/2; r > 0 when sf was rounded down.
\* (A tie 2r = w cannot occur for operands below 2^52.)
DivResidue(h, w) ==
  Centered(((h % w) * Pow2Mod(MantissaBits - FloorLog2Ratio(h, w), w)) % w, w)

\* The product of the rounded-down quotient (residue r > 0) with x, where the
\* exact product would be the integer Q: the exact product of sf and x is
\* Q - r*x/(w*2^k); it rounds to the float64 below Q exactly when that defect
\* exceeds half the spacing of float64 values below Q (ties go to Q, whose
\* significand is even).  e is the binary exponent of that comparison.
ProductBelow(r, x, w, Q, e) == r * x * Pow2(0 - e) > w * Pow2(e)

BelowExponent(a, b, Q) == b - a - 1 - (IF Q = Pow2(b) THEN 1 ELSE 0)

\* uint64(float64(h)/float64(w) * float64(x)) : the float64 quotient, the
\* float64 product and the truncating conversion, for operands up to 4096.
\* When w does not divide x*h the product is farther than its rounding error
\* from any integer and the truncation is the exact floor.
TruncNear(r, h, w, x, Q) ==
  IF r <= 0 THEN Q
  ELSE IF ProductBelow(r, x, w, Q,
                       BelowExponent(FloorLog2Ratio(h, w), FloorLog2(Q), Q))
    THEN Q - 1
    ELSE Q

F64DivMulTrunc(h, w, x) ==
  IF (x * h) % w # 0 THEN (x * h) \div w
  ELSE TruncNear(DivResidue(h, w), h, w, x, (x * h) \div w)

\* the same computation in exact arithmetic: what a rounding-free
\* implementation would return
ExactDivMulTrunc(h, w, x) == (x * h) \div w

\* src/main.go:269  widthToHeight
\*   scalingFactor := float64(mezzanineHeight) / float64(mezzanineWidth)
\*   height := uint64(scalingFactor*float64(width)) >> 1 << 1
widthToHeight(width, mezzanineWidth, mezzanineHeight) ==
  (F64DivMulTrunc(mezzanineHeight, mezzanineWidth, width) \div 2) * 2

\* ----------------------------------------------------------------- state
VARIABLES
  pc,              \* position of main() (the coordinating flow); "panicked"
                   \* once the process has died by a run-time panic
  abortReason,     \* which early return of main() was taken, "" if none
  mezzanineInfo,   \* probe result of the reference: Width, Height, Frames
  sortedVariants,  \* the ladder: the Bandwidth of each variant, in order
  variantInfo,     \* per dumped variant_<k>.ts: its Source, Streams, Frames
  data,            \* the viewer data file: BandwidthPcts, ResolutionPcts
  userPcts,        \* share of users per share slot (slot 0: unplayable)
  curVariant,      \* the rendition cursor of the bucketing loop
  bucket,          \* index of the next bandwidth bucket of the bucketing loop
  slots,           \* slots[b+1]: the slot bucket b's share was added to
  fifo,            \* per decoder: the scratch path it writes is a named pipe
  i, j,            \* the cell loop's share index and resolution bucket
  effectiveVmafs,  \* the quality matrix, rows allocated as the loop reaches them
  g,               \* position of each of the cell's three goroutines
  outcome,         \* how each goroutine's sub-operation ended
  consumed,        \* the scorer has read the scratch paths that are named pipes
  errc,            \* content of the cell's error channel
  closed,          \* the error channel is closed
  hadErr,          \* hadErr of the drain loop
  cancelled,       \* cancelFunc has been called
  vmafScore,       \* the variable the score goroutine writes
  firstFail,       \* the goroutine of the cell that failed first, or "none"
  reportedErr,     \* the error the drain loop printed (its first non-nil), or "none"
  invoked,         \* external tools invoked so far
  started,         \* the cells started so far, in order
  stored,          \* the cells whose score was assigned to the matrix
  lowScored,       \* cells whose scorer returned a below-threshold score
  calls,           \* arguments of the three invocations of the cell started last
  totalVmaf,       \* the reported aggregate
  reported,        \* "Average VMAF" has been printed
  wh               \* operands and result of one widthToHeight call

runVars  == <<pc, abortReason, mezzanineInfo, sortedVariants, variantInfo, data>>
buckVars == <<userPcts, curVariant, bucket, slots>>
loopVars == <<fifo, i, j, effectiveVmafs>>
cellVars == <<g, outcome, consumed, errc, closed, hadErr, cancelled, vmafScore,
              firstFail, reportedErr>>
histVars == <<invoked, started, stored, lowScored, calls>>
outVars  == <<totalVmaf, reported>>
vars == <<runVars, buckVars, loopVars, cellVars, histVars, outVars, wh>>

Goroutines == {"ref", "dist", "vmaf"}
\* the goroutines that decode: "ref" writes mezzanineDecodePath, "dist" writes
\* distortedDecodePath
Decoders == {"ref", "dist"}

\* ------------------------------------------------------------ helpers
RECURSIVE SumSeq(_)
\* src/main.go:261 sumFloat64Array
SumSeq(s) == IF s = <<>> THEN 0 ELSE Head(s) + SumSeq(Tail(s))

\* a share sequence of the given length: v in the buckets of S, 0 elsewhere
ShareSeq(len, S, v) == [k \in 1..len |-> IF (k - 1) \in S THEN v ELSE 0]

IsAscending(s) == \A k \in 1..(Len(s) - 1) : s[k] <= s[k + 1]

RECURSIVE SeqsUpTo(_, _)
\* the sequences over S of length at most n
SeqsUpTo(S, n) ==
  IF n = 0 THEN {<<>>}
  ELSE LET shorter == SeqsUpTo(S, n - 1)
       IN  shorter \cup {Append(s, x) : s \in shorter, x \in S}

\* src/main.go:404  userPcts := make([]float64, len(sortedVariants)+1)
ZeroPcts(variants) == [k \in 1..(Len(variants) + 1) |-> 0]

\* the initial value of everything outside the part a specification exercises
IdleRun ==
  /\ abortReason = "" /\ mezzanineInfo = [Width |-> 0, Height |-> 0, Frames |-> 0]
  /\ variantInfo = <<>>
IdleLoop == fifo = [x \in Decoders |-> FALSE] /\ i = 0 /\ j = 0 /\ effectiveVmafs = <<>>
IdleCell ==
  /\ g = [x \in Goroutines |-> "idle"] /\ outcome = [x \in Goroutines |-> "none"]
  /\ consumed = FALSE /\ errc = <<>> /\ closed = FALSE /\ hadErr = FALSE
  /\ cancelled = FALSE /\ vmafScore = 0
  /\ firstFail = "none" /\ reportedErr = "none"
IdleHist ==
  /\ invoked = {} /\ started = <<>> /\ stored = {}
  /\ lowScored = {} /\ calls = <<>>
IdleOut == totalVmaf = 0 /\ reported = FALSE
IdleWh == wh = [width |-> 1, mw |-> 1, mh |-> 1, height |-> 0, applied |-> FALSE]

\* ------------------------------------------------- the Bandwidth Bucketer
\* One iteration of the loop of src/main.go:406-416 for bucket idx (Go index)
\* with share userPct: the new cursor, the share array and the slot used.
\* uint32(i*100*1000) does not wrap: i < 100.
BucketStepDropLast(variants, cur, pcts, idx, userPct) ==
  IF cur = Len(variants)
    THEN [cur |-> cur, pcts |-> pcts, slot |-> cur]
    ELSE LET c2 == IF idx * BucketBps >= variants[cur + 1] THEN cur + 1 ELSE cur
         IN  [cur |-> c2,
              pcts |-> [pcts EXCEPT ![c2 + 1] = @ + userPct],
              slot |-> c2]

\* the cursor moved past every rendition the bucket reaches, not past one
BucketStepAdvanceAll(variants, cur, pcts, idx, userPct) ==
  LET reached == {k \in 1..Len(variants) : idx * BucketBps >= variants[k]}
      c2 == IF Cardinality(reached) > cur THEN Cardinality(reached) ELSE cur
  IN  [cur |-> c2,
       pcts |-> [pcts EXCEPT ![c2 + 1] = @ + userPct],
       slot |-> c2]

BucketStep(variants, cur, pcts, idx, userPct) ==
  IF cur = Len(variants)
    THEN [cur |-> cur,
          pcts |-> [pcts EXCEPT ![cur + 1] = @ + userPct],
          slot |-> cur]
    ELSE LET c2 == IF idx * BucketBps >= variants[cur + 1] THEN cur + 1 ELSE cur
         IN  [cur |-> c2,
              pcts |-> [pcts EXCEPT ![c2 + 1] = @ + userPct],
              slot |-> c2]

\* ---- the bucketing loop, one bucket per step
\* bandwidths (bps) the ladders of the bucketing specification are built from
LadderBandwidths == {0, 150000, 180000, 200000, 500000, 1000000}
\* the buckets that carry the mass of a bandwidth distribution
BwMassSets == {{20}, {5, 20}, {0, 99}, 0..(bandwidthsLen - 1)}
BwProfiles ==
  {ShareSeq(bandwidthsLen, S, v) : S \in BwMassSets, v \in 1..MaxShare}

\* a sort.Sort-ed ladder and a 100 entry distribution, before bucket 0
InitBucket ==
  /\ pc = "bucketing"
  /\ sortedVariants \in {s \in SeqsUpTo(LadderBandwidths, MaxRenditions) : IsAscending(s)}
  /\ \E bw \in BwProfiles : data = [BandwidthPcts |-> bw, ResolutionPcts |-> <<>>]
  /\ userPcts = ZeroPcts(sortedVariants)
  /\ curVariant = 0 /\ bucket = 0 /\ slots = <<>>
  /\ IdleRun /\ IdleLoop /\ IdleCell /\ IdleHist /\ IdleOut /\ IdleWh

\* src/main.go:406-416, one iteration of the range loop
BucketNext ==
  /\ pc = "bucketing"
  /\ bucket < Len(data.BandwidthPcts)
  /\ LET st == BucketStep(sortedVariants, curVariant, userPcts, bucket,
                          data.BandwidthPcts[bucket + 1])
     IN  /\ curVariant' = st.cur
         /\ userPcts' = st.pcts
         /\ slots' = Append(slots, st.slot)
  /\ bucket' = bucket + 1
  /\ UNCHANGED <<runVars, loopVars, cellVars, histVars, outVars, wh>>

\* src/main.go:417 the range loop is over
BucketDone ==
  /\ pc = "bucketing"
  /\ bucket = Len(data.BandwidthPcts)
  /\ pc' = "bucketed"
  /\ UNCHANGED <<abortReason, mezzanineInfo, sortedVariants, variantInfo, data,
                 buckVars, loopVars, cellVars, histVars, outVars, wh>>

NextBucket == BucketNext \/ BucketDone
SpecBucket == InitBucket /\ [][NextBucket]_vars

\* ---- widthToHeight as a pure function
InitWh ==
  /\ pc = "widthToHeight"
  /\ wh \in [width : 1..MaxDim, mw : 1..MaxDim, mh : 1..MaxDim,
             height : {0}, applied : {FALSE}]
  /\ sortedVariants = <<>>
  /\ data = [BandwidthPcts |-> <<>>, ResolutionPcts |-> <<>>]
  /\ userPcts = <<>> /\ curVariant = 0 /\ bucket = 0 /\ slots = <<>>
  /\ IdleRun /\ IdleLoop /\ IdleCell /\ IdleHist /\ IdleOut

\* src/main.go:444 a call of widthToHeight
ApplyWidthToHeight ==
  /\ pc = "widthToHeight"
  /\ ~wh.applied
  /\ wh' = [wh EXCEPT !.height = widthToHeight(wh.width, wh.mw, wh.mh),
                      !.applied = TRUE]
  /\ UNCHANGED <<runVars, buckVars, loopVars, cellVars, histVars, outVars>>

NextWh == ApplyWidthToHeight
SpecWh == InitWh /\ [][NextWh]_vars

\* ------------------------------------------------------------ the driver
\* bandwidths (bps) of the variants a fetched manifest lists
ManifestBandwidths == {500000, 1500000}
\* the variant lists of the manifests: any bandwidths in any order, equal
\* bandwidths included (nothing in src/main.go:340-351 removes them)
Manifests == SeqsUpTo(ManifestBandwidths, MaxVariants)

\* the scores the scorer returns: below, at and above lowVMAFThreshold
Scores == {0 - 1, 0, 1}
\* stream metadata ffprobe reports for the mezzanine
MezzanineDims == {<<1920, 1080>>, <<0, 1080>>, <<1920, 0>>}
\* bandwidth_pcts of the data files: well formed, and of a wrong length
BwData ==
  {ShareSeq(bandwidthsLen, S, 1) : S \in {{20}, {5, 20}}}
    \cup {ShareSeq(n, {}, 0) : n \in {0, bandwidthsLen - 1, bandwidthsLen + 1}}
\* resolution_pcts of the data files
ResData ==
  {ShareSeq(ResLen, S, 1) : S \in {{}, {44}, {4, 11, 21, 44}}} \cup {<<>>}

RECURSIVE InsertByBandwidth(_, _)
\* src/main.go:247-251 ByBandwidth.Less orders by Bandwidth alone; variants of
\* equal bandwidth are not told apart here, so their relative order (which
\* sort.Sort leaves open) does not show
InsertByBandwidth(s, x) ==
  IF s = <<>> THEN <<x>>
  ELSE IF x < Head(s) THEN <<x>> \o s
  ELSE <<Head(s)>> \o InsertByBandwidth(Tail(s), x)

\* the variants left in manifest order
SortByBandwidthSkipped(s) == s

RECURSIVE SortByBandwidth(_)
\* src/main.go:351 sort.Sort(ByBandwidth(masterPlaylist.Variants))
SortByBandwidth(s) ==
  IF s = <<>> THEN <<>>
  ELSE InsertByBandwidth(SortByBandwidth(Tail(s)), Head(s))

Abort(reason) == pc' = "aborted" /\ abortReason' = reason

Init ==
  /\ pc = "args"
  /\ sortedVariants = <<>>
  /\ data = [BandwidthPcts |-> <<>>, ResolutionPcts |-> <<>>]
  /\ userPcts = <<>> /\ curVariant = 0 /\ bucket = 0 /\ slots = <<>>
  /\ IdleRun /\ IdleLoop /\ IdleCell /\ IdleHist /\ IdleOut /\ IdleWh

\* src/main.go:281-301 flag.Parse and the three argument checks
ValidateArgs ==
  /\ pc = "args"
  /\ \E ok \in BOOLEAN :
       IF ok THEN pc' = "probe" /\ UNCHANGED abortReason ELSE Abort("usage")
  /\ UNCHANGED <<mezzanineInfo, sortedVariants, variantInfo, data, buckVars,
                 loopVars, cellVars, histVars, outVars, wh>>

\* src/main.go:309-323 probe the mezzanine and validate its one video stream
ProbeMezzanine ==
  /\ pc = "probe"
  /\ invoked' = invoked \cup {"probe"}
  /\ \/ Abort("probe") /\ UNCHANGED mezzanineInfo
     \/ \* ffprobe lists one stream and it is null: the length check of
        \* src/main.go:314 passes and videoStream.Width (src/main.go:319)
        \* dereferences a nil pointer; the panic ends the process
        pc' = "panicked" /\ UNCHANGED <<abortReason, mezzanineInfo>>
     \/ \E streams \in 0..2, dims \in MezzanineDims, frames \in {MaxFrames} :
          IF streams # 1
            THEN Abort("mezzanineStreams") /\ UNCHANGED mezzanineInfo
          ELSE IF dims[1] = 0 \/ dims[2] = 0
            THEN Abort("mezzanineDims") /\ UNCHANGED mezzanineInfo
          ELSE /\ mezzanineInfo' =
                    [Width |-> dims[1], Height |-> dims[2], Frames |-> frames]
               /\ pc' = "fetch" /\ UNCHANGED abortReason
  /\ UNCHANGED <<sortedVariants, variantInfo, data, buckVars, loopVars,
                 cellVars, started, stored, lowScored, calls,
                 outVars, wh>>

\* src/main.go:327-350 fetch the manifest, decode it, take its variants
FetchManifest ==
  /\ pc = "fetch"
  /\ \/ \E reason \in {"fetch", "decodeManifest", "notMaster"} :
          Abort(reason) /\ UNCHANGED sortedVariants
     \/ \E m \in Manifests :
          sortedVariants' = m /\ pc' = "sort" /\ UNCHANGED abortReason
  /\ UNCHANGED <<mezzanineInfo, variantInfo, data, buckVars, loopVars,
                 cellVars, histVars, outVars, wh>>

\* src/main.go:351 sort the variants in place by ascending bandwidth
SortVariants ==
  /\ pc = "sort"
  /\ sortedVariants' = SortByBandwidth(sortedVariants)
  /\ pc' = "materialize"
  /\ UNCHANGED <<abortReason, mezzanineInfo, variantInfo, data, buckVars,
                 loopVars, cellVars, histVars, outVars, wh>>

\* src/main.go:363-371 the two checks on a dumped variant's probe result
VariantValidNoFrames(info, mezz) ==
  IF info.Streams # 1 THEN "variantStreams" ELSE ""

VariantValid(info, mezz) ==
  IF info.Streams # 1 THEN "variantStreams"
  ELSE IF info.Frames # mezz.Frames THEN "variantFrames"
  ELSE ""

\* src/main.go:356-374 one iteration of the dump loop: remux the next variant
\* to variant_<k>.ts, probe it, validate it
DumpVariant ==
  /\ pc = "materialize"
  /\ Len(variantInfo) < Len(sortedVariants)
  /\ invoked' = invoked \cup {"dump"}
  /\ \/ Abort("dump") /\ UNCHANGED variantInfo
     \/ \E streams \in 0..2, frames \in 0..MaxFrames :
          LET info == [Source |-> sortedVariants[Len(variantInfo) + 1],
                       Streams |-> streams, Frames |-> frames]
              bad == VariantValid(info, mezzanineInfo)
          IN  /\ variantInfo' = Append(variantInfo, info)
              /\ IF bad # "" THEN Abort(bad) ELSE UNCHANGED <<pc, abortReason>>
  /\ UNCHANGED <<mezzanineInfo, sortedVariants, data, buckVars, loopVars,
                 cellVars, started, stored, lowScored, calls,
                 outVars, wh>>

\* src/main.go:374 the dump loop is over
DumpDone ==
  /\ pc = "materialize"
  /\ Len(variantInfo) = Len(sortedVariants)
  /\ pc' = "loaddata"
  /\ UNCHANGED <<abortReason, mezzanineInfo, sortedVariants, variantInfo, data,
                 buckVars, loopVars, cellVars, histVars, outVars, wh>>

\* src/main.go:396 len(data.BandwidthPcts) != bandwidthsLen, negated
BandwidthLenOkAlways(bw) == TRUE

BandwidthLenOk(bw) == Len(bw) = bandwidthsLen

\* src/main.go:377-399 open, read and parse the data file, check the length
\* of bandwidth_pcts
LoadData ==
  /\ pc = "loaddata"
  /\ \/ \E reason \in {"openData", "readData", "unmarshalData"} :
          Abort(reason) /\ UNCHANGED data
     \/ \E bw \in BwData, res \in ResData :
          /\ data' = [BandwidthPcts |-> bw, ResolutionPcts |-> res]
          /\ IF BandwidthLenOk(bw)
               THEN pc' = "bucket" /\ UNCHANGED abortReason
               ELSE Abort("bandwidthLen")
  /\ UNCHANGED <<mezzanineInfo, sortedVariants, variantInfo, buckVars,
                 loopVars, cellVars, histVars, outVars, wh>>

\* src/main.go:400-405 print the sums, allocate userPcts, reset the cursor
BucketStart ==
  /\ pc = "bucket"
  /\ userPcts' = ZeroPcts(sortedVariants)
  /\ curVariant' = 0 /\ bucket' = 0 /\ slots' = <<>>
  /\ pc' = "bucketing"
  /\ UNCHANGED <<abortReason, mezzanineInfo, sortedVariants, variantInfo, data,
                 loopVars, cellVars, histVars, outVars, wh>>

\* src/main.go:427-433 the two Mkfifo calls (each on its own path, each with
\* its error dropped: either path is a named pipe or not, independently of the
\* other), the logs directory, the matrix with no row allocated yet
PrepareScratch ==
  /\ pc = "bucketed"
  /\ fifo' \in [Decoders -> BOOLEAN]
  /\ effectiveVmafs' = [k \in 1..Len(userPcts) |-> <<>>]
  /\ i' = 0 /\ j' = 0
  /\ pc' = "outer"
  /\ UNCHANGED <<abortReason, mezzanineInfo, sortedVariants, variantInfo, data,
                 buckVars, cellVars, histVars, outVars, wh>>

\* ------------------------------------------------------- the cell loop
\* src/main.go:443 curWidth := uint64((j + 1) * 16)
CurWidth(jj) == (jj + 1) * BucketWidth
\* src/main.go:444
CurHeight(jj) == widthToHeight(CurWidth(jj), mezzanineInfo.Width, mezzanineInfo.Height)

\* src/main.go:446-453 the two skip conditions of the inner loop
SkipCellIgnoreShare(curWidth, curHeight, resUserPct) ==
  curWidth < minVmafResolution \/ curHeight < minVmafResolution

SkipCell(curWidth, curHeight, resUserPct) ==
  \/ curWidth < minVmafResolution \/ curHeight < minVmafResolution
  \/ resUserPct = 0

\* src/main.go:436 if i == 0 { continue }
SkipSlotNever(ii) == FALSE

SkipSlot(ii) == ii = 0

\* src/main.go:434-438 head of the outer loop: allocate row i, skip slot 0
\* src/main.go:526 or leave the loop
OuterIter ==
  /\ pc = "outer"
  /\ IF i = Len(userPcts)
       THEN pc' = "aggregate" /\ UNCHANGED <<i, j, effectiveVmafs>>
       ELSE /\ effectiveVmafs' =
                 [effectiveVmafs EXCEPT
                    ![i + 1] = [k \in 1..Len(data.ResolutionPcts) |-> 0]]
            /\ IF SkipSlot(i)
                 THEN i' = i + 1 /\ UNCHANGED <<pc, j>>
                 ELSE pc' = "inner" /\ j' = 0 /\ UNCHANGED i
  /\ UNCHANGED <<abortReason, mezzanineInfo, sortedVariants, variantInfo, data,
                 buckVars, fifo, cellVars, histVars, outVars, wh>>

\* src/main.go:232-233 the two scratch paths
mezzanineDecodePath == "/tmp/mezzanine.yuv"
distortedDecodePath == "/tmp/distorted.yuv"

\* src/vmaf_estimator.go:59-67 NewVMAFEstimator: the distorted path is taken
\* from the package constant, not from the parameter
NewVMAFEstimatorSwapped(referencePath, distortedPath) ==
  [ReferencesDecodePath |-> distortedPath, DistortedDecodePath |-> referencePath]

NewVMAFEstimator(referencePath, distortedPath) ==
  [ReferencesDecodePath |-> referencePath,
   DistortedDecodePath |-> distortedDecodePath]

\* src/main.go:432 vmaf := NewVMAFEstimator(mezzanineDecodePath, distortedDecodePath, ...)
vmaf == NewVMAFEstimator(mezzanineDecodePath, distortedDecodePath)

\* src/main.go:463, 472-476, 486 and src/ffmpeg_decoder.go:68,
\* src/vmaf_estimator.go:70-79: the arguments of the two decodes and of the
\* scorer of the cell of share index ii; variant_<n>.ts is named by n
CellCalls(ii, curWidth, curHeight) ==
  [ref |-> [input |-> "mezzanineFile", output |-> mezzanineDecodePath,
            width |-> curWidth, height |-> curHeight],
   dist |-> [input |-> ii - 1, output |-> distortedDecodePath,
             width |-> curWidth, height |-> curHeight],
   vmaf |-> [variant |-> ii - 1, width |-> curWidth, height |-> curHeight,
             reference |-> vmaf.ReferencesDecodePath,
             distorted |-> vmaf.DistortedDecodePath]]

\* src/main.go:441-504 head of the inner loop: leave it, skip the bucket, or
\* start the cell's three goroutines (each invokes its external process) and
\* the goroutine that closes errc
InnerIter ==
  /\ pc = "inner"
  /\ IF j = Len(data.ResolutionPcts)
       THEN /\ i' = i + 1 /\ pc' = "outer"
            /\ UNCHANGED <<j, cellVars, histVars>>
       ELSE IF SkipCell(CurWidth(j), CurHeight(j), data.ResolutionPcts[j + 1])
         THEN /\ j' = j + 1
              /\ UNCHANGED <<pc, i, cellVars, histVars>>
         ELSE /\ g' = [x \in Goroutines |-> "run"]
              /\ outcome' = [x \in Goroutines |-> "none"]
              /\ consumed' = FALSE /\ errc' = <<>> /\ closed' = FALSE
              /\ hadErr' = FALSE /\ cancelled' = FALSE /\ vmafScore' = 0
              /\ firstFail' = "none" /\ reportedErr' = "none"
              /\ started' = Append(started, <<i, j>>)
              /\ invoked' = invoked \cup {"decode", "score"}
              /\ calls' = CellCalls(i, CurWidth(j), CurHeight(j))
              /\ pc' = "drain"
              /\ UNCHANGED <<i, j, stored, lowScored>>
  /\ UNCHANGED <<abortReason, mezzanineInfo, sortedVariants, variantInfo, data,
                 buckVars, fifo, effectiveVmafs, outVars, wh>>

\* the value a goroutine sends on errc: the decode goroutines send their own
\* err (src/main.go:465, 478); the score goroutine sends the err of main()
\* when the scorer failed (src/main.go:491), which is nil since every earlier
\* stage succeeded, and a new error when the score is low (src/main.go:493)
SendValueNil(x) == "nil"

SendValue(x) ==
  IF x = "vmaf" THEN (IF outcome[x] = "low" THEN "low" ELSE "nil") ELSE x

\* the scorer reads a named pipe among its two inputs
ReadsPipe == \E x \in Decoders : fifo[x]

\* src/ffmpeg_decoder.go:67-78, src/main.go:463-467 (476-480): the decode
\* process exits 0.  Writing to a named pipe ends only once the scorer has
\* read it; writing to a regular file needs no reader.
DecodeSucceed(x) ==
  /\ pc = "drain" /\ x \in Decoders /\ g[x] = "run"
  /\ fifo[x] => consumed
  /\ g' = [g EXCEPT ![x] = "done"]
  /\ outcome' = [outcome EXCEPT ![x] = "ok"]
  /\ UNCHANGED <<runVars, buckVars, loopVars, consumed, errc, closed, hadErr,
                 cancelled, vmafScore, firstFail, reportedErr, histVars,
                 outVars, wh>>

\* the goroutine that failed first in the cell, once x has failed
FirstFailure(first, x) == IF first = "none" THEN x ELSE first

\* the decode process fails, by itself or killed when the context is cancelled
DecodeFail(x) ==
  /\ pc = "drain" /\ x \in Decoders /\ g[x] = "run"
  /\ g' = [g EXCEPT ![x] = "send"]
  /\ outcome' = [outcome EXCEPT ![x] = "fail"]
  /\ firstFail' = FirstFailure(firstFail, x)
  /\ UNCHANGED <<runVars, buckVars, loopVars, consumed, errc, closed, hadErr,
                 cancelled, vmafScore, reportedErr, histVars, outVars, wh>>

\* the scorer reads its two inputs; every one that is a named pipe is read
\* while its decoder writes it
ScorerConsume ==
  /\ pc = "drain" /\ ReadsPipe /\ ~consumed
  /\ g["vmaf"] = "run"
  /\ \A x \in Decoders : fifo[x] => g[x] = "run"
  /\ consumed' = TRUE
  /\ UNCHANGED <<runVars, buckVars, loopVars, g, outcome, errc, closed, hadErr,
                 cancelled, vmafScore, firstFail, reportedErr, histVars,
                 outVars, wh>>

\* src/main.go:492 vmafScore < lowVMAFThreshold
IsLowScore(s) == s < lowVMAFThreshold

\* src/vmaf_estimator.go:69-115, src/main.go:488-498: the scorer exits 0, its
\* log parses, every frame of it holds its metrics, and the harmonic mean of
\* the frame scores is s (stat.HarmonicMean is outside src/: its results are
\* the scores below, at and above the threshold)
ScorerSucceed ==
  /\ pc = "drain" /\ g["vmaf"] = "run"
  /\ ReadsPipe => consumed
  /\ \E s \in Scores :
       /\ vmafScore' = s
       /\ IF IsLowScore(s)
            THEN /\ g' = [g EXCEPT !["vmaf"] = "send"]
                 /\ outcome' = [outcome EXCEPT !["vmaf"] = "low"]
                 /\ firstFail' = FirstFailure(firstFail, "vmaf")
            ELSE /\ g' = [g EXCEPT !["vmaf"] = "done"]
                 /\ outcome' = [outcome EXCEPT !["vmaf"] = "ok"]
                 /\ UNCHANGED firstFail
       /\ lowScored' =
            IF s < lowVMAFThreshold THEN lowScored \cup {<<i, j>>} ELSE lowScored
  /\ UNCHANGED <<runVars, buckVars, loopVars, consumed, errc, closed, hadErr,
                 cancelled, reportedErr, invoked, started, stored,
                 calls, outVars, wh>>

\* src/vmaf_estimator.go:87-108, src/main.go:488-491: the scorer exits
\* non-zero (or is killed), or its log cannot be read or parsed:
\* CalculateVMAF returns 0 and an error
ScorerFail ==
  /\ pc = "drain" /\ g["vmaf"] = "run"
  /\ vmafScore' = 0
  /\ g' = [g EXCEPT !["vmaf"] = "send"]
  /\ outcome' = [outcome EXCEPT !["vmaf"] = "fail"]
  /\ firstFail' = FirstFailure(firstFail, "vmaf")
  /\ UNCHANGED <<runVars, buckVars, loopVars, consumed, errc, closed, hadErr,
                 cancelled, reportedErr, histVars, outVars, wh>>

\* src/vmaf_estimator.go:110-113: the scorer exits 0 and its log parses, but
\* a frame of it is null or has no metrics: frame.Metrics.VMAF dereferences a
\* nil pointer and the panic in the score goroutine ends the whole process.
\* CalculateVMAF does not return: nothing is assigned to vmafScore, nothing is
\* sent, wg.Done() is not called, main() neither stores nor returns, and the
\* decoders still running are left behind.
ScorerPanic ==
  /\ pc = "drain" /\ g["vmaf"] = "run"
  /\ ReadsPipe => consumed
  /\ pc' = "panicked"
  /\ g' = [g EXCEPT !["vmaf"] = "panic"]
  /\ outcome' = [outcome EXCEPT !["vmaf"] = "panic"]
  /\ firstFail' = FirstFailure(firstFail, "vmaf")
  /\ UNCHANGED <<abortReason, mezzanineInfo, sortedVariants, variantInfo, data,
                 buckVars, loopVars, consumed, errc, closed, hadErr, cancelled,
                 vmafScore, reportedErr, histVars, outVars, wh>>

\* errc <- err (src/main.go:465, 478, 491, 493) followed by wg.Done(): the
\* send completes when the channel has room
Send(x) ==
  /\ pc = "drain" /\ g[x] = "send"
  /\ ~closed /\ Len(errc) < ErrcCap
  /\ errc' = Append(errc, SendValue(x))
  /\ g' = [g EXCEPT ![x] = "done"]
  /\ UNCHANGED <<runVars, buckVars, loopVars, outcome, consumed, closed, hadErr,
                 cancelled, vmafScore, firstFail, reportedErr, histVars,
                 outVars, wh>>

\* src/main.go:502 wg.Wait() returns: every goroutine has called wg.Done()
WaitDoneAny(gs) == \E x \in Goroutines : gs[x] = "done"

WaitDone(gs) == \A x \in Goroutines : gs[x] = "done"

\* src/main.go:501-504 wg.Wait() returns, close(errc)
CloseErrc ==
  /\ pc = "drain" /\ ~closed
  /\ WaitDone(g)
  /\ closed' = TRUE
  /\ UNCHANGED <<runVars, buckVars, loopVars, g, outcome, consumed, errc,
                 hadErr, cancelled, vmafScore, firstFail, reportedErr, histVars,
                 outVars, wh>>

\* src/main.go:508 hadErr after the drain loop has received err
DrainHadErrNever(err, had) == had

DrainHadErr(err, had) == had \/ err # "nil"

\* src/main.go:507-513 one iteration of the drain loop: the first non-nil
\* error sets hadErr and cancels the cell's context
DrainRecv ==
  /\ pc = "drain" /\ errc # <<>>
  /\ errc' = Tail(errc)
  /\ hadErr' = DrainHadErr(Head(errc), hadErr)
  /\ cancelled' = (cancelled \/ (hadErr' /\ ~hadErr))
  /\ reportedErr' = IF hadErr' /\ ~hadErr THEN Head(errc) ELSE reportedErr
  /\ UNCHANGED <<runVars, buckVars, loopVars, g, outcome, consumed, closed,
                 vmafScore, firstFail, histVars, outVars, wh>>

\* the scorer of the current cell failed while both of its decodes succeeded
ScorerFailedAlone ==
  outcome["vmaf"] = "fail" /\ outcome["ref"] = "ok" /\ outcome["dist"] = "ok"

\* src/main.go:507 for err := range errc ends on the closed, drained channel
RangeEndsWhenEmpty(ch, isClosed) == ch = <<>>

RangeEnds(ch, isClosed) == isClosed /\ ch = <<>>

\* src/main.go:513-525 the drain loop ends on the closed, empty channel:
\* return if hadErr, else store the score and go to the next bucket
DrainExit ==
  /\ pc = "drain" /\ RangeEnds(errc, closed)
  /\ IF hadErr
       THEN /\ Abort("vmaf")
            /\ UNCHANGED <<i, j, effectiveVmafs, cellVars, stored>>
       ELSE /\ effectiveVmafs' = [effectiveVmafs EXCEPT ![i + 1][j + 1] = vmafScore]
            /\ stored' = stored \cup {<<i, j>>}
            /\ j' = j + 1
            /\ pc' = "inner"
            /\ g' = [x \in Goroutines |-> "idle"]
            /\ outcome' = [x \in Goroutines |-> "none"]
            /\ consumed' = FALSE /\ closed' = FALSE /\ cancelled' = FALSE
            /\ vmafScore' = 0 /\ firstFail' = "none"
            /\ UNCHANGED <<abortReason, i, errc, hadErr, reportedErr>>
  /\ UNCHANGED <<mezzanineInfo, sortedVariants, variantInfo, data, buckVars,
                 fifo, invoked, started, lowScored, calls, outVars, wh>>

RECURSIVE RowSumUnweighted(_, _, _)
\* src/main.go:529-534 the weighted sum over the whole matrix
RowSumUnweighted(row, resPcts, k) ==
  IF k = 0 THEN 0 ELSE RowSumUnweighted(row, resPcts, k - 1) + row[k]

RECURSIVE RowSum(_, _, _)
RowSum(row, resPcts, k) ==
  IF k = 0 THEN 0 ELSE RowSum(row, resPcts, k - 1) + row[k] * resPcts[k]

RECURSIVE MatrixSumUnweighted(_, _, _, _)
MatrixSumUnweighted(matrix, pcts, resPcts, k) ==
  IF k = 0 THEN 0
  ELSE MatrixSumUnweighted(matrix, pcts, resPcts, k - 1)
         + RowSum(matrix[k], resPcts, Len(resPcts))

RECURSIVE MatrixSum(_, _, _, _)
MatrixSum(matrix, pcts, resPcts, k) ==
  IF k = 0 THEN 0
  ELSE MatrixSum(matrix, pcts, resPcts, k - 1)
         + pcts[k] * RowSum(matrix[k], resPcts, Len(resPcts))

\* src/main.go:528-535 aggregate and print "Average VMAF"
Aggregate ==
  /\ pc = "aggregate"
  /\ totalVmaf' = MatrixSum(effectiveVmafs, userPcts, data.ResolutionPcts, Len(userPcts))
  /\ reported' = TRUE
  /\ pc' = "done"
  /\ UNCHANGED <<abortReason, mezzanineInfo, sortedVariants, variantInfo, data,
                 buckVars, loopVars, cellVars, histVars, wh>>

Next ==
  \/ ValidateArgs \/ ProbeMezzanine \/ FetchManifest \/ SortVariants
  \/ DumpVariant \/ DumpDone \/ LoadData
  \/ BucketStart \/ BucketNext \/ BucketDone \/ PrepareScratch
  \/ OuterIter \/ InnerIter
  \/ \E x \in Decoders : DecodeSucceed(x) \/ DecodeFail(x)
  \/ ScorerConsume \/ ScorerSucceed \/ ScorerFail \/ ScorerPanic
  \/ \E x \in Goroutines : Send(x)
  \/ CloseErrc \/ DrainRecv \/ DrainExit
  \/ Aggregate

Spec == Init /\ [][Next]_vars

\* ---- the aggregation of src/main.go:528-535 over the matrices of a run of
\* a 1920x1080 mezzanine against the ladder 500/1500 kbps
\* scores of the computed cells (none is below lowVMAFThreshold)
AggScores == {0, 1, 3}
\* factors the scores are scaled by
AggFactors == {0, 2, 5}
\* the resolution buckets of width 352 and 368, both at least 192 high
AggBuckets == {21, 22}

\* resolution_pcts of 23 buckets with mass in the buckets 4, 21 and 22
AggResData ==
  {[k \in 1..23 |-> IF k = 5 THEN a ELSE IF k = 22 THEN b
                    ELSE IF k = 23 THEN c ELSE 0] :
     a \in {0, 1}, b \in 0..MaxShare, c \in 0..MaxShare}

\* the matrices the cell loop leaves for the resolution shares res: row 0
\* and the skipped buckets are 0, a computed cell holds its score
AggMatrices(res) ==
  {[r \in 1..3 |-> [k \in 1..23 |->
      IF r = 1 \/ (k - 1) \notin AggBuckets \/ res[k] = 0 THEN 0
      ELSE v[2 * (r - 2) + (k - 21)]] ] :
     v \in [1..4 -> AggScores]}

\* main() at src/main.go:528: the cell loop is over, nothing was aborted
InitAgg ==
  /\ pc = "aggregate" /\ abortReason = ""
  /\ mezzanineInfo = [Width |-> 1920, Height |-> 1080, Frames |-> MaxFrames]
  /\ sortedVariants = <<500000, 1500000>>
  /\ variantInfo = [k \in 1..2 |-> [Source |-> sortedVariants[k], Streams |-> 1,
                                     Frames |-> MaxFrames]]
  /\ \E a \in 0..MaxShare, b \in 0..MaxShare, c \in 0..MaxShare :
       /\ userPcts = <<a, b, c>>
       /\ \E res \in AggResData :
            data = [BandwidthPcts |->
                      [k \in 1..bandwidthsLen |->
                         IF k = 1 THEN a ELSE IF k = 6 THEN b
                         ELSE IF k = 16 THEN c ELSE 0],
                    ResolutionPcts |-> res]
  /\ curVariant = 2 /\ bucket = bandwidthsLen
  /\ slots = [k \in 1..bandwidthsLen |-> IF k <= 5 THEN 0 ELSE IF k <= 15 THEN 1 ELSE 2]
  /\ fifo = [x \in Decoders |-> TRUE] /\ i = 3 /\ j = 0
  /\ effectiveVmafs \in AggMatrices(data.ResolutionPcts)
  /\ IdleCell /\ IdleHist /\ IdleOut /\ IdleWh

NextAgg == Aggregate
SpecAgg == InitAgg /\ [][NextAgg]_vars

\* ---- the cell loop of src/main.go:433-535 with the scheduling of its
\* goroutines: runs of a 1920x1080 mezzanine whose viewers are all in
\* bandwidth bucket 20 and in the resolution buckets 21 and 22
CellLadders == {<<500000>>, <<500000, 1500000>>}
CellResData == {ShareSeq(23, S, 1) : S \in {{21}, {21, 22}}}

\* main() at src/main.go:433: the scratch paths are prepared, no cell has run
InitCell ==
  /\ pc = "outer" /\ abortReason = ""
  /\ mezzanineInfo = [Width |-> 1920, Height |-> 1080, Frames |-> MaxFrames]
  /\ sortedVariants \in CellLadders
  /\ variantInfo = [k \in 1..Len(sortedVariants) |->
                      [Source |-> sortedVariants[k], Streams |-> 1,
                       Frames |-> MaxFrames]]
  /\ \E res \in CellResData :
       data = [BandwidthPcts |-> ShareSeq(bandwidthsLen, {20}, 1),
               ResolutionPcts |-> res]
  /\ userPcts = [k \in 1..(Len(sortedVariants) + 1) |->
                   IF k = Len(sortedVariants) + 1 THEN 1 ELSE 0]
  /\ curVariant = Len(sortedVariants) /\ bucket = bandwidthsLen
  /\ slots = [k \in 1..bandwidthsLen |->
               IF k <= 5 THEN 0
               ELSE IF k <= 15 \/ Len(sortedVariants) = 1 THEN 1 ELSE 2]
  /\ fifo \in [Decoders -> BOOLEAN] /\ i = 0 /\ j = 0
  /\ effectiveVmafs = [k \in 1..Len(userPcts) |-> <<>>]
  /\ IdleCell /\ IdleOut /\ IdleWh
  /\ invoked = {"probe", "dump"} /\ started = <<>> /\ stored = {}
  /\ lowScored = {} /\ calls = <<>>

NextCell ==
  \/ OuterIter \/ InnerIter
  \/ \E x \in Decoders : DecodeSucceed(x) \/ DecodeFail(x)
  \/ ScorerConsume \/ ScorerSucceed \/ ScorerFail \/ ScorerPanic
  \/ \E x \in Goroutines : Send(x)
  \/ CloseErrc \/ DrainRecv \/ DrainExit
  \/ Aggregate

\* exec.CommandContext kills the process of a cancelled context
\* (src/ffmpeg_decoder.go:68, src/vmaf_estimator.go:71)
KillDecoder(x) == cancelled /\ DecodeFail(x)
KillScorer == cancelled /\ ScorerFail

\* what the Go scheduler and the processes guarantee: main() and every
\* runnable goroutine take their next step, a send on a channel with room
\* completes, a process that is not blocked on a pipe exits, a killed
\* process exits.  A decoder writing to a named pipe nobody reads stays
\* blocked, no process is bound to fail, and no scorer is bound to leave a
\* log that makes CalculateVMAF panic.
FairCell ==
  /\ WF_vars(OuterIter) /\ WF_vars(InnerIter) /\ WF_vars(Aggregate)
  /\ WF_vars(CloseErrc) /\ WF_vars(DrainRecv) /\ WF_vars(DrainExit)
  /\ \A x \in Goroutines : WF_vars(Send(x))
  /\ \A x \in Decoders : WF_vars(DecodeSucceed(x)) /\ WF_vars(KillDecoder(x))
  /\ WF_vars(ScorerConsume) /\ WF_vars(ScorerSucceed) /\ WF_vars(KillScorer)

SpecCell == InitCell /\ [][NextCell]_vars /\ FairCell

\* ---- the end-to-end scenario: the run of a 1920x1080 mezzanine against the
\* ladder 500/1500/4000 kbps, all viewers in bandwidth bucket 20 and in
\* resolution bucket 44, from the bucketing on
\* main() at src/main.go:400: the mezzanine is probed, the three variants are
\* sorted, dumped and valid, the data file is loaded
InitE2E ==
  /\ pc = "bucket" /\ abortReason = ""
  /\ mezzanineInfo = [Width |-> 1920, Height |-> 1080, Frames |-> MaxFrames]
  /\ sortedVariants = <<500000, 1500000, 4000000>>
  /\ variantInfo = [k \in 1..3 |-> [Source |-> sortedVariants[k], Streams |-> 1,
                                     Frames |-> MaxFrames]]
  /\ data = [BandwidthPcts |-> ShareSeq(bandwidthsLen, {20}, 1),
             ResolutionPcts |-> ShareSeq(ResLen, {44}, 1)]
  /\ userPcts = <<>> /\ curVariant = 0 /\ bucket = 0 /\ slots = <<>>
  /\ IdleLoop /\ IdleCell /\ IdleOut /\ IdleWh
  /\ invoked = {"probe", "dump"} /\ started = <<>> /\ stored = {}
  /\ lowScored = {} /\ calls = <<>>

NextE2E ==
  \/ BucketStart \/ BucketNext \/ BucketDone \/ PrepareScratch
  \/ OuterIter \/ InnerIter
  \/ \E x \in Decoders : DecodeSucceed(x) \/ DecodeFail(x)
  \/ ScorerConsume \/ ScorerSucceed \/ ScorerFail \/ ScorerPanic
  \/ \E x \in Goroutines : Send(x)
  \/ CloseErrc \/ DrainRecv \/ DrainExit
  \/ Aggregate

SpecE2E == InitE2E /\ [][NextE2E]_vars

\* ------------------------------------------------------- bucketing claims
\* the number of renditions of the ladder whose bandwidth is at most bps
RenditionsAtOrBelow(variants, bps) ==
  Cardinality({k \in 1..Len(variants) : variants[k] <= bps})

IsStrictlyAscending(s) == \A k \in 1..(Len(s) - 1) : s[k] < s[k + 1]

\* C4: for every (strictly) ascending ladder and every bucket b, the share of
\* bucket b is added to the slot whose number is the count of renditions with
\* bandwidth at most b*100000.
C4_SlotIsRenditionCount ==
  IsStrictlyAscending(sortedVariants) =>
    \A b \in 1..Len(slots) :
      slots[b] = RenditionsAtOrBelow(sortedVariants, (b - 1) * BucketBps)

\* C5: on a (strictly) ascending ladder, a bucket whose lower bound equals the
\* bandwidth of the rendition of slot r is attributed to slot r, not r-1.
C5_TieGoesToHigherRendition ==
  IsStrictlyAscending(sortedVariants) =>
    \A b \in 1..Len(slots) : \A r \in 1..Len(sortedVariants) :
      (b - 1) * BucketBps = sortedVariants[r] => slots[b] = r

\* C6: after every processed bucket the share array has renditions+1 entries
\* and its entries sum to the shares of the buckets processed so far; at the
\* end of the loop they sum to the whole distribution.
C6_MassConserved ==
  pc \in {"bucketing", "bucketed"} =>
    /\ Len(userPcts) = Len(sortedVariants) + 1
    /\ SumSeq(userPcts) = SumSeq(SubSeq(data.BandwidthPcts, 1, bucket))
    /\ (pc = "bucketed" => SumSeq(userPcts) = SumSeq(data.BandwidthPcts))

\* C6 witness: a ladder of two or more renditions is bucketed to the end with
\* mass in two different slots, one of them the last.
C6_Witness ==
  /\ pc = "bucketed"
  /\ Len(sortedVariants) >= 2
  /\ userPcts[Len(userPcts)] > 0
  /\ \E k \in 1..(Len(userPcts) - 1) : userPcts[k] > 0
  /\ SumSeq(userPcts) = SumSeq(data.BandwidthPcts)

\* ------------------------------------------------- widthToHeight claims
\* C10: widthToHeight returns floor(width*referenceHeight/referenceWidth)
\* rounded down to the nearest even integer, for all positive operands.
C10_FloorRoundedToEven ==
  wh.applied =>
    wh.height = (ExactDivMulTrunc(wh.mh, wh.mw, wh.width) \div 2) * 2

\* ------------------------------------------------------------ run claims
Last(s) == s[Len(s)]
CellTools == {"decode", "score"}

\* the data file has been loaded and parsed
DataLoaded ==
  \/ pc \in {"bucket", "bucketing", "bucketed", "outer", "inner", "drain",
             "aggregate", "done"}
  \/ abortReason \in {"bandwidthLen", "vmaf"}

\* C1: when the scorer of a cell fails while both decodes succeed, the run
\* halts: no score is stored for the cell, no later cell is started and no
\* aggregate is reported.
C1_ScorerFailureHalts ==
  [][(pc = "drain" /\ pc' \in {"inner", "aborted"} /\ outcome["vmaf"] = "fail"
        /\ outcome["ref"] = "ok" /\ outcome["dist"] = "ok") =>
       /\ pc' = "aborted"
       /\ UNCHANGED <<stored, effectiveVmafs, started, reported>>]_vars

\* C2 (as stated): when bandwidth_pcts has a length other than 100 the run
\* aborts and no external tool at all has been invoked before the abort.
C2_NoToolBeforeLengthAbort ==
  (DataLoaded /\ Len(data.BandwidthPcts) # bandwidthsLen) =>
    pc = "aborted" /\ invoked = {}

\* C2 (amended): when bandwidth_pcts has a length other than 100 the run
\* aborts at the length check, after the mezzanine probe and the dump of
\* every variant, and before any cell: no decode and no scorer has been
\* invoked and the bucketing has not started.
C2_NoCellBeforeLengthAbort ==
  (DataLoaded /\ Len(data.BandwidthPcts) # bandwidthsLen) =>
    /\ pc = "aborted" /\ abortReason = "bandwidthLen"
    /\ invoked \cap CellTools = {}
    /\ started = <<>> /\ userPcts = <<>>
    /\ "probe" \in invoked
    /\ Len(variantInfo) = Len(sortedVariants)

\* C2 witness: a data file with 99 bandwidth entries is rejected in a run
\* that has probed the mezzanine and dumped two variants.
C2_Witness ==
  /\ abortReason = "bandwidthLen"
  /\ Len(data.BandwidthPcts) = bandwidthsLen - 1
  /\ invoked = {"probe", "dump"}
  /\ Len(variantInfo) >= 2

\* the end-to-end scenario: 1920x1080, ladder 500/1500/4000 kbps, all
\* bandwidth mass in bucket 20, all resolution mass in bucket 44
EndToEnd ==
  /\ mezzanineInfo.Width = 1920 /\ mezzanineInfo.Height = 1080
  /\ sortedVariants = <<500000, 1500000, 4000000>>
  /\ Len(data.BandwidthPcts) = bandwidthsLen
  /\ \A k \in 1..Len(data.BandwidthPcts) :
       (data.BandwidthPcts[k] # 0) <=> (k = 21)
  /\ Len(data.ResolutionPcts) >= 45
  /\ \A k \in 1..Len(data.ResolutionPcts) :
       (data.ResolutionPcts[k] # 0) <=> (k = 45)

\* C3: a cell is started for (i, j) only if the bandwidth share of slot i is
\* nonzero, the resolution share of bucket j is nonzero and both target
\* dimensions are at least 192; in the end-to-end scenario a completed run
\* has computed exactly one cell.
C3_OnlySharedCellsStarted ==
  /\ \A k \in 1..Len(started) :
       LET c == started[k]
       IN  /\ userPcts[c[1] + 1] # 0
           /\ data.ResolutionPcts[c[2] + 1] # 0
           /\ CurWidth(c[2]) >= minVmafResolution
           /\ CurHeight(c[2]) >= minVmafResolution
  /\ (EndToEnd /\ pc = "done") => Len(started) = 1

\* C7: when the scorer of a cell returns a score below the threshold the run
\* aborts: the score is not stored, no later cell is started, no aggregate
\* is reported.
C7_LowScoreAborts ==
  \A c \in lowScored :
    /\ pc \in {"drain", "aborted"}
    /\ c \notin stored
    /\ effectiveVmafs[c[1] + 1][c[2] + 1] = 0
    /\ Last(started) = c
    /\ ~reported

\* C7 witness: a run that stored a cell aborts on a later cell whose decodes
\* both succeeded and whose score was low.
C7_Witness ==
  /\ pc = "aborted" /\ abortReason = "vmaf"
  /\ lowScored = {<<i, j>>}
  /\ outcome = [ref |-> "ok", dist |-> "ok", vmaf |-> "low"]
  /\ vmafScore < lowVMAFThreshold
  /\ stored # {}

\* a dumped variant that the validation must reject
InvalidVariant(info) ==
  info.Streams # 1 \/ info.Frames # mezzanineInfo.Frames

\* C8: when a dumped variant has a frame count other than the mezzanine's or
\* not exactly one video stream, the run aborts and no cell is ever started.
C8_InvalidRenditionAborts ==
  (\E k \in 1..Len(variantInfo) : InvalidVariant(variantInfo[k])) =>
    /\ pc = "aborted"
    /\ abortReason \in {"variantStreams", "variantFrames"}
    /\ started = <<>>
    /\ invoked \cap CellTools = {}

\* C8 witness: the second variant has one stream and a wrong frame count
\* after a first, valid variant.
C8_Witness ==
  /\ pc = "aborted"
  /\ Len(variantInfo) = 2
  /\ ~InvalidVariant(variantInfo[1])
  /\ variantInfo[2].Streams = 1
  /\ variantInfo[2].Frames # mezzanineInfo.Frames

\* resolution bucket jj is one the claim says is skipped
Skippable(jj) ==
  \/ data.ResolutionPcts[jj + 1] = 0
  \/ (jj + 1) * BucketWidth < minVmafResolution
  \/ CurHeight(jj) < minVmafResolution

\* the matrix entries of skippable buckets are 0
C9_SkippedEntriesZero ==
  \A r \in 1..Len(effectiveVmafs) : \A jj \in 1..Len(effectiveVmafs[r]) :
    effectiveVmafs[r][jj] = 0 \/ ~Skippable(jj - 1)

\* a step that starts a cell (invokes a decode or the scorer) starts the cell
\* of the current bucket, and that bucket is not skippable
C9_StartsOnlyUnskipped ==
  (started' # started \/ invoked' \cap CellTools # invoked \cap CellTools) =>
    /\ pc = "inner" /\ started' = Append(started, <<i, j>>)
    /\ ~Skippable(j)

\* a step at a skippable bucket goes on to the next bucket
C9_SkipContinues ==
  (pc = "inner" /\ j < Len(data.ResolutionPcts) /\ Skippable(j)) =>
    /\ pc' = "inner" /\ j' = j + 1 /\ i' = i
    /\ UNCHANGED <<abortReason, invoked, started, stored, effectiveVmafs>>

\* a step that changes the matrix, or what decides which buckets are skippable
C9_MatrixStep ==
  \/ effectiveVmafs' # effectiveVmafs
  \/ data' # data \/ mezzanineInfo' # mezzanineInfo

\* C9: for a resolution bucket whose width or computed height is below 192
\* or whose share is zero, no cell of any rendition is started, its matrix
\* entries stay 0, and the loop goes on to the next bucket without an error.
C9_SkippedBucketsCostNothing ==
  /\ C9_SkippedEntriesZero
  /\ [][C9_MatrixStep => C9_SkippedEntriesZero']_vars
  /\ [][C9_StartsOnlyUnskipped /\ C9_SkipContinues]_vars

\* C9 witness: a run completes having stored a score although buckets with a
\* positive share were too narrow (bucket 4) or too low (bucket 11).
C9_Witness ==
  /\ pc = "done" /\ stored # {}
  /\ \E jj \in {4, 11} :
       /\ jj < Len(data.ResolutionPcts)
       /\ data.ResolutionPcts[jj + 1] > 0
       /\ \A r \in 1..Len(effectiveVmafs) : effectiveVmafs[r][jj + 1] = 0

\* ----------------------------------------------------- aggregation claims
RECURSIVE WeightedSum(_, _)
\* the sum over the index pairs P of matrix[i][j] * userPcts[i] * resPcts[j]
WeightedSum(matrix, P) ==
  IF P = {} THEN 0
  ELSE LET p == CHOOSE q \in P : TRUE
       IN  matrix[p[1]][p[2]] * userPcts[p[1]] * data.ResolutionPcts[p[2]]
             + WeightedSum(matrix, P \ {p})

AllCells == (1..Len(userPcts)) \X (1..Len(data.ResolutionPcts))

Scaled(matrix, c) ==
  [r \in 1..Len(matrix) |-> [k \in 1..Len(matrix[r]) |-> c * matrix[r][k]]]

\* C11: the reported aggregate is the sum over every share index (slot 0
\* included) and every resolution bucket of score * rendition share *
\* resolution share; scaling every score by c scales it by c; it is 0 when
\* every resolution share is 0.
C11_AggregateIsWeightedSum ==
  pc = "done" =>
    /\ totalVmaf = WeightedSum(effectiveVmafs, AllCells)
    /\ \A c \in AggFactors :
         MatrixSum(Scaled(effectiveVmafs, c), userPcts, data.ResolutionPcts,
                   Len(userPcts)) = c * totalVmaf
    /\ (\A k \in 1..Len(data.ResolutionPcts) : data.ResolutionPcts[k] = 0)
         => totalVmaf = 0

\* C11 witness: an aggregate is reported to which cells of two renditions and
\* two buckets contribute with shares other than 0 and 1, while users are in
\* the unplayable slot.
C11_Witness ==
  /\ pc = "done" /\ reported
  /\ userPcts[1] > 0 /\ userPcts[2] > 1 /\ userPcts[3] > 0
  /\ data.ResolutionPcts[22] > 1 /\ data.ResolutionPcts[23] > 0
  /\ effectiveVmafs[2][22] = 3 /\ effectiveVmafs[3][23] = 1
  /\ totalVmaf >= 3 * userPcts[2] * data.ResolutionPcts[22] + userPcts[3]

\* the bandwidth bucketing of the run is complete
Bucketed ==
  \/ pc \in {"bucketed", "outer", "inner", "drain", "aggregate", "done"}
  \/ abortReason = "vmaf"

\* C12: in the end-to-end scenario the rendition-share vector is [0, 0, 1, 0]
\* and a run that completes reports the score stored for the cell of share
\* index 2 and bucket 44, whose target is 720x404.
C12_EndToEndAggregate ==
  EndToEnd =>
    /\ Bucketed => userPcts = <<0, 0, 1, 0>>
    /\ pc = "done" =>
         /\ CurWidth(44) = 720 /\ CurHeight(44) = 404
         /\ <<2, 44>> \in stored
         /\ totalVmaf = effectiveVmafs[3][45]

\* C12 witness: the end-to-end run completes and reports 1, the score of
\* the cell (2, 44), while the cell (1, 44) also holds a score of 1.
C12_Witness ==
  /\ EndToEnd /\ pc = "done" /\ reported
  /\ totalVmaf = 1 /\ effectiveVmafs[3][45] = 1
  /\ effectiveVmafs[2][45] = 1

\* ---------------------------------------------------- concurrency claims
\* the goroutine whose error the drain loop printed
ErrSource(e) == IF e = "low" THEN "vmaf" ELSE e

\* the coordinating flow leaves the drain loop of the current cell, to store
\* the score or to return
BarrierPassed == pc = "drain" /\ pc' \in {"inner", "aborted"}

\* C13: when one of the three goroutines of a cell has failed, the cell's
\* context is cancelled before the coordinating flow passes the barrier, and
\* the error the cell reports is the one of the goroutine that failed first.
C13_FirstFailureCancels ==
  [][(BarrierPassed /\ firstFail # "none") =>
       (cancelled /\ ErrSource(reportedErr) = firstFail)]_vars

\* C14: whenever one of the three goroutines of a cell has failed, the
\* coordinating flow eventually passes the cell's barrier and the run
\* terminates (aborted or done; a process that died by a panic has
\* terminated as well).
C14_FailureTerminates ==
  (pc = "drain" /\ firstFail # "none") ~> (pc \in {"aborted", "done", "panicked"})

\* a decode of the current cell has failed
DecodeFailed == \E x \in Decoders : outcome[x] = "fail"

\* the number of times the cell c was started
Starts(c) == Cardinality({k \in 1..Len(started) : started[k] = c})

\* while a decode of the current cell has failed the cell is the last one
\* started, was started once, has no score stored, and nothing is reported;
\* main() is in the drain loop or has returned, unless the process has died
C15_FailedCellKept ==
  DecodeFailed =>
    /\ pc \in {"drain", "aborted", "panicked"}
    /\ Last(started) = <<i, j>> /\ Starts(<<i, j>>) = 1
    /\ <<i, j>> \notin stored
    /\ effectiveVmafs[i + 1][j + 1] = 0
    /\ ~reported

\* the barrier of a cell with a failed decode is passed into the abort
C15_FailedCellAborts ==
  (DecodeFailed /\ BarrierPassed) =>
    /\ pc' = "aborted" /\ abortReason' = "vmaf"
    /\ UNCHANGED <<i, j, started, stored, effectiveVmafs, invoked, outVars>>

\* C15: when the reference or the distorted decode of a cell fails, the run
\* aborts after the cell's barrier: the score of the cell is not stored, no
\* later cell is started, the cell is not started again, no aggregate is
\* reported, and the run takes no further step once it has aborted (or its
\* process has died by the panic of the score goroutine before the barrier).
C15_DecodeFailureAborts ==
  /\ []C15_FailedCellKept
  /\ [][C15_FailedCellAborts /\ pc \notin {"aborted", "panicked"}]_vars

\* C15 witness: after a cell was stored, the reference decode of a later cell
\* fails while its scorer succeeds, and the run is aborted reporting the
\* decode error.
C15_Witness ==
  /\ pc = "aborted" /\ abortReason = "vmaf"
  /\ outcome["ref"] = "fail" /\ outcome["vmaf"] = "ok"
  /\ reportedErr = "ref" /\ cancelled
  /\ stored # {} /\ <<i, j>> \notin stored

\* the goroutines of a cell whose sub-operation has not terminated
InFlight == {x \in Goroutines : g[x] \in {"run", "send"}}

\* C16: the sub-operations in flight all belong to the cell started last: a
\* goroutine runs only while the coordinating flow is in the drain loop of
\* that cell, the flow leaves the drain loop (to store or to abort) only when
\* all three have terminated, and it starts a cell only when none is in
\* flight, so each scratch path has at most one decoder writing to it.
C16_OneCellInFlight ==
  /\ [](InFlight # {} =>
          /\ pc \in {"drain", "panicked"}
          /\ started # <<>> /\ Last(started) = <<i, j>>)
  /\ [](pc \in {"aborted", "done"} => InFlight = {})
  /\ [][BarrierPassed => \A x \in Goroutines : g[x] = "done"]_vars
  /\ [][started' # started => InFlight = {}]_vars

\* C16 witness: a run that stored a cell (success path) aborts on a later
\* cell (abort path) whose three goroutines have all terminated, one of
\* them killed after the cancellation.
C16_Witness ==
  /\ pc = "aborted" /\ abortReason = "vmaf"
  /\ stored # {} /\ Len(started) >= 2
  /\ cancelled /\ firstFail = "ref" /\ outcome["dist"] = "fail"
  /\ \A x \in Goroutines : g[x] = "done"

\* the step assigns a score to the matrix (src/main.go:522)
ScoreWritten == stored' # stored

\* the matrix entry of cell c
Entry(matrix, c) == matrix[c[1] + 1][c[2] + 1]

\* C17: a matrix entry is written only by the coordinating flow leaving the
\* drain loop, when the three goroutines of the cell have terminated and none
\* of them failed; the value written is the score variable, which no
\* goroutine can write any more; a cell is written once and its entry never
\* changes afterwards.
C17_EntryWrittenOnceAfterSuccess ==
  /\ [][ScoreWritten =>
          /\ pc = "drain"
          /\ \A x \in Goroutines : g[x] = "done" /\ outcome[x] = "ok"
          /\ <<i, j>> \notin stored /\ stored' = stored \cup {<<i, j>>}
          /\ effectiveVmafs' =
               [effectiveVmafs EXCEPT ![i + 1][j + 1] = vmafScore]]_vars
  /\ [][\A c \in stored :
          Entry(effectiveVmafs', c) = Entry(effectiveVmafs, c)]_vars

\* ------------------------------------------------------- ordering claims
\* lexicographic order of cells (share index, resolution bucket)
LexLess(a, b) == a[1] < b[1] \/ (a[1] = b[1] /\ a[2] < b[2])

\* C18: the cells are started in strictly increasing lexicographic order of
\* (share index, resolution bucket): none is started twice or after a larger
\* one; the share indices are 1..renditions, share index i standing for the
\* rendition with the i-th lowest bandwidth of the ascending ladder.
C18_CellsInLexOrder ==
  /\ \A k \in 1..(Len(started) - 1) : LexLess(started[k], started[k + 1])
  /\ \A k \in 1..Len(started) :
       /\ started[k][1] \in 1..Len(sortedVariants)
       /\ started[k][2] \in 0..(Len(data.ResolutionPcts) - 1)
       /\ variantInfo[started[k][1]].Source = sortedVariants[started[k][1]]
  /\ started # <<>> => IsAscending(sortedVariants)

\* C18 witness: two buckets of the first rendition and then two buckets of
\* the second were started, the second rendition having more bandwidth.
C18_Witness ==
  /\ Len(started) >= 4
  /\ started[1] = <<1, 21>> /\ started[2] = <<1, 44>>
  /\ started[3] = <<2, 21>> /\ started[4] = <<2, 44>>
  /\ sortedVariants[1] < sortedVariants[2]

\* the stage of the driver a position of main() belongs to: 1 arguments,
\* 2 reference probe, 3 manifest, 4 sort, 5 materialize and validate,
\* 6 viewer distribution, 7 bucketing, 8 scratch preparation (pending),
\* 9 quality estimation, 10 aggregation, 11 reported
StageOf(p) ==
  CASE p = "args" -> 1
    [] p = "probe" -> 2
    [] p = "fetch" -> 3
    [] p = "sort" -> 4
    [] p = "materialize" -> 5
    [] p = "loaddata" -> 6
    [] p \in {"bucket", "bucketing"} -> 7
    [] p = "bucketed" -> 8
    [] p \in {"outer", "inner", "drain"} -> 9
    [] p = "aggregate" -> 10
    [] p = "done" -> 11
    [] OTHER -> 0

\* a step stays in its stage, enters the next one, or aborts
C19_NextStageOrAbort ==
  \/ pc' \in {"aborted", "panicked"}
  \/ StageOf(pc') \in {StageOf(pc), StageOf(pc) + 1}

\* a cell in which a sub-operation failed ends the run
C19_CellFailureAborts ==
  (BarrierPassed /\ firstFail # "none") => pc' = "aborted"

\* C19: the stages of the driver occur in the stated order, each entered
\* only from the one before it; a failure in a stage aborts the run, and a
\* run that has aborted (or whose process has died) executes nothing further.
C19_StagesInOrder ==
  /\ pc = "args"
  /\ [][/\ C19_NextStageOrAbort /\ C19_CellFailureAborts
        /\ pc \notin {"aborted", "panicked"}]_vars

\* the index pairs of the matrix outside row 0
PlayableCells == (2..Len(userPcts)) \X (1..Len(data.ResolutionPcts))

\* C20: no cell is ever started or stored for share index 0, row 0 of the
\* matrix is all zeros in every reachable state, and the reported aggregate
\* is the weighted sum over the other rows, with the raw shares: the users of
\* slot 0 contribute 0 and the sum is not renormalised.
C20_UnplayableSlotIsZero ==
  /\ \A k \in 1..Len(started) : started[k][1] # 0
  /\ \A c \in stored : c[1] # 0
  /\ Len(effectiveVmafs) >= 1 =>
       \A k \in 1..Len(effectiveVmafs[1]) : effectiveVmafs[1][k] = 0
  /\ pc = "done" => totalVmaf = WeightedSum(effectiveVmafs, PlayableCells)

\* C20 witness: a run with users in the unplayable slot completes with a
\* positive aggregate, row 0 allocated and zero.
C20_Witness ==
  /\ pc = "done" /\ reported
  /\ userPcts[1] > 0 /\ totalVmaf > 0
  /\ Len(effectiveVmafs[1]) = Len(data.ResolutionPcts)
  /\ \A k \in 1..Len(effectiveVmafs[1]) : effectiveVmafs[1][k] = 0
  /\ stored # {}

\* ------------------------------------------------------- the cell's join
\* the external processes of the three goroutines have all terminated
ProcessesEnded == \A x \in Goroutines : g[x] \in {"send", "done"}

\* errc is closed only after wg.Wait(), stays closed until the drain loop is
\* left, and the drain loop is left only on the closed, drained channel
C21_ClosedOnceAfterAll ==
  /\ (closed' /\ ~closed) => (pc = "drain" /\ WaitDone(g))
  /\ (closed /\ ~closed') => BarrierPassed
  /\ BarrierPassed => (closed /\ errc = <<>> /\ WaitDone(g))

\* C21: the join of a cell cannot deadlock.  For every outcome of the three
\* sub-operations and every interleaving, a goroutine that sends on the
\* capacity-1 channel gets its send through (as long as the process lives:
\* a panic of the score goroutine ends it), the channel is closed once and
\* only after all three goroutines have finished, and once the three
\* processes have terminated the coordinating flow leaves the drain loop.
C21_JoinNeverDeadlocks ==
  /\ [](closed => WaitDone(g))
  /\ [](Len(errc) <= ErrcCap)
  /\ [][C21_ClosedOnceAfterAll]_vars
  /\ \A x \in Goroutines :
       (g[x] = "send") ~> (g[x] = "done" \/ pc = "panicked")
  /\ (pc = "drain" /\ ProcessesEnded) ~> (pc # "drain")

\* C21 witness: all three sub-operations of a cell failed, the three values
\* went through the channel, it was closed and drained and the flow left the
\* drain loop.
C21_Witness ==
  /\ pc = "aborted" /\ abortReason = "vmaf"
  /\ \A x \in Goroutines : outcome[x] = "fail" /\ g[x] = "done"
  /\ closed /\ errc = <<>> /\ hadErr

\* --------------------------------------------------------- cell wiring
\* the dump variant_<n>.ts, as probed (src/main.go:358)
VariantFile(n) == variantInfo[n + 1]

\* the bandwidth that is the ii-th lowest of the ladder, equal bandwidths
\* counted as often as they occur
IsNthLowest(bw, ii) ==
  /\ \E k \in 1..Len(sortedVariants) : sortedVariants[k] = bw
  /\ Cardinality({k \in 1..Len(sortedVariants) : sortedVariants[k] < bw}) < ii
  /\ Cardinality({k \in 1..Len(sortedVariants) : sortedVariants[k] <= bw}) >= ii

\* the matrix indices of the stored cells
StoredCells == {<<c[1] + 1, c[2] + 1>> : c \in stored}

\* the invocations recorded are wired as the cell started last requires
LastCellWired ==
  LET ii == Last(started)[1]
      jj == Last(started)[2]
  IN  /\ ii >= 1
      /\ calls.ref.input = "mezzanineFile"
      /\ IsNthLowest(VariantFile(calls.dist.input).Source, ii)
      /\ \A b \in 1..Len(slots) :
           slots[b] = ii =>
             (b - 1) * BucketBps >= VariantFile(calls.dist.input).Source
      /\ \A x \in Goroutines :
           /\ calls[x].width = (jj + 1) * BucketWidth
           /\ calls[x].height = CurHeight(jj)
      /\ calls.vmaf.reference = calls.ref.output
      /\ calls.vmaf.distorted = calls.dist.output
      /\ calls.ref.output # calls.dist.output

\* C22: for the cell (i, j) started last, i >= 1, the distorted decode reads
\* the dump of the rendition with the i-th lowest bandwidth, which is a lower
\* bound of every bandwidth bucket of share slot i; the two decodes and the
\* scorer get the same width and height, those of bucket j; the scorer reads
\* as reference the path the reference decode writes and as distorted the
\* path the distorted decode writes; and a completed run weights every
\* stored score by the shares of its own cell.
C22_CellWiring ==
  /\ [][started' # started => LastCellWired']_vars
  /\ [][calls' # calls => started' # started]_vars
  /\ [](pc = "done" => totalVmaf = WeightedSum(effectiveVmafs, StoredCells))

\* C22 witness: the cell of the second rendition, of more bandwidth than the
\* first, is started at 720x404 after a cell of the first was stored.
C22_Witness ==
  /\ pc = "drain" /\ Last(started) = <<2, 44>>
  /\ calls.dist.input = 1
  /\ VariantFile(0).Source = 500000 /\ VariantFile(1).Source = 1500000
  /\ calls.vmaf.width = 720 /\ calls.vmaf.height = 404
  /\ calls.vmaf.reference = "/tmp/mezzanine.yuv"
  /\ calls.vmaf.distorted = "/tmp/distorted.yuv"
  /\ Cardinality(stored) >= 1

\* ----------------------------------------------------- the bucketing cursor
\* C23: during the bucketing the rendition cursor never decreases, advances
\* by at most one per bucket and stays within 0..renditions, so the ladder
\* entry it reads and the share slot it adds to exist, for every ladder
\* length; with an empty ladder all mass goes to slot 0.
C23_CursorInRange ==
  pc \in {"bucketing", "bucketed"} =>
    /\ curVariant \in 0..Len(sortedVariants)
    /\ (curVariant + 1) \in DOMAIN userPcts
    /\ bucket = Len(slots)
    /\ curVariant = (IF slots = <<>> THEN 0 ELSE Last(slots))
    /\ \A b \in 1..Len(slots) :
         /\ slots[b] \in 0..Len(sortedVariants)
         /\ slots[b] - (IF b = 1 THEN 0 ELSE slots[b - 1]) \in {0, 1}
         /\ slots[b] >= 1 => slots[b] \in DOMAIN sortedVariants
    /\ sortedVariants = <<>> =>
         userPcts = <<SumSeq(SubSeq(data.BandwidthPcts, 1, bucket))>>

\* C23 witness: on a ladder of three renditions the cursor advanced one
\* rendition per bucket to the end of the ladder, and the remaining buckets
\* went to the last slot.
C23_Witness ==
  /\ pc = "bucketed" /\ Len(sortedVariants) = 3
  /\ curVariant = 3
  /\ slots[2] = 1 /\ slots[3] = 2 /\ slots[4] = 3
  /\ slots[bandwidthsLen] = 3 /\ userPcts[4] > 0

====
